---- MODULE Spec2Model ----
(***************************************************************************)
(* A model of shock.py, the extractor of Director movies from a projector.  *)
(* Buffers are sequences of bytes (0..255), text is a sequence of ASCII     *)
(* codes, and every read, write, seek and comparison is the one the code    *)
(* makes, at the position the code makes it.  A Python exception ends the   *)
(* run: the model records it as status "error".                             *)
(***************************************************************************)
EXTENDS Integers, Sequences, FiniteSets, TLC

VARIABLES
    fx,        \* ghost: the parameters the input of this run was built from
    data,      \* the bytes of the input file (line 107)
    outdir,    \* the names present in the output folder
    pc,        \* position of main: "locate", "walk", "pair", "extract", "done"
    status,    \* "ok", or "error" once an exception or sys.exit(1) ended the run
    win,       \* win_file matched (line 109/112)
    stream,    \* file_stream's buffer, data[offset:] (line 121)
    endian,    \* file_stream.endian (line 122)
    hdr,       \* mmap_res_len, mmap_res_count and rel (lines 133-138)
    i,         \* the map walk's loop variable (line 143)
    entries,   \* ghost: what the walk computed for each map record
    files,     \* line 140
    names,     \* line 141
    table,     \* file_table (line 158)
    k,         \* how many pairs of file_table the loop of line 165 has taken
    cur,       \* the pair in hand: name, temp_file, its flag, file_type, output_name
    scan,      \* the Xtra scanner's temp_file position, tag and size (lines 209-224)
    log,       \* ghost: one record per pair the loop of line 165 has handled
    twice      \* ghost: the rebaser's result on a sub-file it had already rebased

vars == <<fx, data, outdir, pc, status, win, stream, endian, hdr, i, entries,
          files, names, table, k, cur, scan, log, twice>>

----------------------------------------------------------------------------
(* Program constants.                                                      *)
IMAP_POS == 12
INT_MMAP_POS == 24
MMAP_POS == 44
MmapLenOff == 10
MmapCountOff == 16
MmapRessOff == 32
SubLenPos == 54
SubCountPos == 60
SubRelPos == 84
SubRecPos == 104
FileSubHeader == 28
TocSanity == 65536
DictLenNamesPos == 16
DictTocPos == 24
DictUnk == 18

(* Tags, as the ASCII codes of their four characters.                      *)
T_XFIR == <<88, 70, 73, 82>>
T_FFIR == <<70, 70, 73, 82>>
T_RIFX == <<82, 73, 70, 88>>
T_RIFF == <<82, 73, 70, 70>>
T_LPPA == <<76, 80, 80, 65>>
T_APPL == <<65, 80, 80, 76>>
T_imap == <<105, 109, 97, 112>>
T_mmap == <<109, 109, 97, 112>>
T_File == <<70, 105, 108, 101>>
T_Dict == <<68, 105, 99, 116>>
T_free == <<102, 114, 101, 101>>
T_MV93 == <<77, 86, 57, 51>>
T_FGDM == <<70, 71, 68, 77>>
T_FGDC == <<70, 71, 68, 67>>
T_Xtra == <<88, 116, 114, 97>>
T_XTdf == <<88, 84, 100, 102>>
T_FILE == <<70, 73, 76, 69>>
T_Xinf == <<88, 105, 110, 102>>
T_junk == <<106, 117, 110, 107>>

----------------------------------------------------------------------------
(* BytesIO and EndianReader.                                                *)
Min(a, b) == IF a < b THEN a ELSE b
Max(a, b) == IF a < b THEN b ELSE a

Reverse(s) == [j \in 1..Len(s) |-> s[Len(s) + 1 - j]]

Zeros(n) == [j \in 1..n |-> 0]

\* BytesIO.read(n) at position pos: short at the end of the buffer, never an error.
read(buf, pos, n) ==
    IF n <= 0 \/ pos >= Len(buf) THEN <<>>
    ELSE SubSeq(buf, pos + 1, Min(pos + n, Len(buf)))

\* BytesIO.write at position pos: overwrites, and extends the buffer past its end.
write(buf, pos, bytes) ==
    LET head == IF pos <= Len(buf) THEN SubSeq(buf, 1, pos)
                ELSE buf \o Zeros(pos - Len(buf))
        tail == IF pos + Len(bytes) < Len(buf)
                THEN SubSeq(buf, pos + Len(bytes) + 1, Len(buf)) ELSE <<>>
    IN  head \o bytes \o tail

\* struct's byte order for an endian flag: "" is the native order.
NativeOrder == "<"
Order(e) == IF e = "" THEN NativeOrder ELSE e

\* read_ident: the flag after reading the 4-byte signature, from flag e.
read_ident(buf, pos, e) ==
    LET signature == read(buf, pos, 4)
        e1 == IF signature \in {T_XFIR, T_FFIR} THEN "<" ELSE e
    IN  IF signature \in {T_RIFX, T_RIFF} THEN ">" ELSE e1

\* tag.decode("ascii") fails on a byte above 127.
IsAscii(s) == \A j \in 1..Len(s) : s[j] < 128

\* read_tag, before decoding: four bytes (fewer at the end), reversed under "<".
read_tag(buf, pos, e) ==
    LET tag == read(buf, pos, 4)
    IN  IF e = "<" THEN Reverse(tag) ELSE tag

\* The model checker's integers end below 2^31.  An unsigned 32-bit value of
\* 2^30 or more is represented by Huge: like the value itself it exceeds every
\* length and position of the model's buffers, which is all the code's reads and
\* seeks depend on.  The inputs hold no such value in a field the rebaser rewrites.
Huge == 2 ^ 30

\* unpack of an unsigned integer; -1 stands for struct.error on a short read.
Unpack(bytes, n, e) ==
    IF Len(bytes) # n THEN -1
    ELSE LET b == IF Order(e) = "<" THEN bytes ELSE Reverse(bytes)
         IN  IF n = 2 THEN b[1] + 256 * b[2]
             ELSE IF b[4] >= 64 THEN Huge
             ELSE b[1] + 256 * b[2] + 65536 * b[3] + 16777216 * b[4]

read_i16(buf, pos, e) == Unpack(read(buf, pos, 2), 2, e)

read_i32(buf, pos, e) == Unpack(read(buf, pos, 4), 4, e)

\* pack(f"{endian}I", v), for 0 <= v < 2^32 (v stays below 2^31 in this model).
Pack(v, e) ==
    LET b == <<v % 256, (v \div 256) % 256, (v \div 65536) % 256,
               (v \div 16777216) % 256>>
    IN  IF Order(e) = "<" THEN b ELSE Reverse(b)

write_i32(buf, pos, v, e) == write(buf, pos, Pack(v, e))

----------------------------------------------------------------------------
(* The offset rebaser of a plain movie sub-file (lines 233-254).            *)

\* Lines 246-247: the value an offset field holds after its record was handled.
RebasedOffset(absolute, relative) ==
    IF absolute # 0 THEN absolute - relative ELSE absolute

\* Lines 242-249, from record n on; pack fails on a negative value.
RECURSIVE RebaseLoop(_, _, _, _, _, _)
RebaseLoop(buf, e, n, mmap_res, mmap_res_len, relative) ==
    IF n >= mmap_res THEN [ok |-> TRUE, buf |-> buf]
    ELSE LET pos == SubRecPos + (n * mmap_res_len)
             absolute == read_i32(buf, pos, e)
         IN  IF absolute < 0 \/ RebasedOffset(absolute, relative) < 0
             THEN [ok |-> FALSE, buf |-> buf]
             ELSE RebaseLoop(IF absolute # 0
                             THEN write_i32(buf, pos, RebasedOffset(absolute, relative), e)
                             ELSE buf,
                             e, n + 1, mmap_res, mmap_res_len, relative)

\* Lines 251-254: the last four bytes become zero.
Terminate(buf, e) ==
    IF read(buf, Len(buf) - 4, 4) # Zeros(4)
    THEN write_i32(buf, Len(buf) - 4, 0, e)
    ELSE buf

\* Lines 233-254 on temp_file's buffer, whose endian flag is e.
Rebase(buf, e) ==
    LET mmap_res_len == read_i16(buf, SubLenPos, e)
        count == read_i32(buf, SubCountPos, e)
        relative == read_i32(buf, SubRelPos, e)
    IN  IF mmap_res_len < 0 \/ count < 0 \/ relative < 0
        THEN [ok |-> FALSE, buf |-> buf]
        ELSE LET patched == RebaseLoop(write_i32(buf, INT_MMAP_POS, MMAP_POS, e),
                                       e, 0, count - 1, mmap_res_len, relative)
             IN  IF patched.ok
                 THEN [ok |-> TRUE, buf |-> Terminate(patched.buf, e)]
                 ELSE patched

----------------------------------------------------------------------------
(* parse_dict (lines 62-94).                                                *)

\* The position of a BytesIO after read(n) at position pos.
tell(buf, pos, n) ==
    IF pos >= Len(buf) THEN pos
    ELSE IF n < 0 THEN Len(buf) ELSE Min(pos + n, Len(buf))

\* Lines 86-92 on a name of ASCII bytes: UTF-8 decodes it to the same codes.
Decode(name) == name

\* Lines 81-92, with left names still to read at position pos.
RECURSIVE ReadNames(_, _, _, _, _)
ReadNames(buf, pos, e, left, filenames) ==
    IF left <= 0 THEN [ok |-> TRUE, names |-> filenames]
    ELSE LET name_length == read_i32(buf, pos, e)
             name == read(buf, pos + 4, name_length)
             after == tell(buf, tell(buf, pos + 4, name_length), (-name_length) % 4)
         IN  IF name_length < 0 \/ name_length # Len(name) \/ ~IsAscii(name)
             THEN [ok |-> FALSE, names |-> filenames]
             ELSE ReadNames(buf, after, e, left - 1, Append(filenames, Decode(name)))

parse_dict(dict_data, endianness) ==
    LET byte_stream == read(dict_data, 8, Len(dict_data))
        first == read_i32(byte_stream, 0, endianness)
        e == IF first > TocSanity
             THEN (IF endianness = "<" THEN ">" ELSE "<") ELSE endianness
        toc_length == read_i32(byte_stream, 0, e)
        len_names == read_i32(byte_stream, DictLenNamesPos, e)
        p1 == tell(byte_stream, DictTocPos, toc_length)
        unk1 == read_i16(byte_stream, p1, e)
        p2 == tell(byte_stream, tell(byte_stream, p1, 2), unk1 - DictUnk)
    IN  IF first < 0 \/ len_names < 0 \/ unk1 < 0
        THEN [ok |-> FALSE, names |-> <<>>]
        ELSE ReadNames(byte_stream, p2, e, len_names, <<>>)

----------------------------------------------------------------------------
(* Output naming (lines 166-169 and 182-200).                               *)
Backslash == 92
Colon == 58
Dot == 46
Slash == 47
Underscore == 95

E_dir == <<46, 100, 105, 114>>
E_dxr == <<46, 100, 120, 114>>
E_dcr == <<46, 100, 99, 114>>
E_cst == <<46, 99, 115, 116>>
E_cxt == <<46, 99, 120, 116>>
E_cct == <<46, 99, 99, 116>>

\* str.lower, str.upper and str.isupper on ASCII text.
LowerChar(c) == IF c >= 65 /\ c <= 90 THEN c + 32 ELSE c
UpperChar(c) == IF c >= 97 /\ c <= 122 THEN c - 32 ELSE c
lower(t) == [j \in 1..Len(t) |-> LowerChar(t[j])]
upper(t) == [j \in 1..Len(t) |-> UpperChar(t[j])]
isupper(t) ==
    /\ \E j \in 1..Len(t) : t[j] >= 65 /\ t[j] <= 90
    /\ \A j \in 1..Len(t) : ~(t[j] >= 97 /\ t[j] <= 122)

\* t[-4:] and t[:-4].
Last4(t) == SubSeq(t, Max(1, Len(t) - 3), Len(t))
ButLast4(t) == SubSeq(t, 1, Len(t) - 4)

\* Lines 166-169: the run of non-separator characters that ends the name, or the
\* whole name when there is none (the name is empty or ends in the separator).
StripName(name, w) ==
    LET path_sep == IF w THEN Backslash ELSE Colon
        seps == {j \in 1..Len(name) : name[j] = path_sep}
        from == IF seps = {} THEN 1
                ELSE (CHOOSE j \in seps : \A j2 \in seps : j2 <= j) + 1
    IN  IF from > Len(name) THEN name ELSE SubSeq(name, from, Len(name))

\* Lines 182-185.
extension_mapping(ext) ==
    IF ext = E_dir THEN <<E_dxr, E_dcr>> ELSE <<E_cxt, E_cct>>

InMapping(ext) == ext \in {E_dir, E_cst}

\* (mutant) the mapped extension stays in lower case.
CaseLower(output_name, ext) == ext

\* Lines 196-197: the mapped extension in the case of the name's last four characters.
CaseOf(output_name, ext) ==
    IF isupper(Last4(output_name)) THEN upper(ext) ELSE ext

\* Lines 186-197: the extension of the output name.
OutputExt(output_name, file_type) ==
    LET ext0 == IF output_name[Len(output_name) - 3] = Dot
                THEN lower(Last4(output_name)) ELSE E_dir
        ext1 == IF file_type = T_MV93 THEN extension_mapping(ext0)[1]
                ELSE IF file_type = T_FGDM THEN extension_mapping(ext0)[2]
                ELSE ext0
    IN  IF InMapping(ext0) THEN CaseOf(output_name, ext1) ELSE ext0

\* Line 199: the name the extension is appended to.
Stem(output_name) == ButLast4(output_name)

\* Line 200.
replace_slash(t) == [j \in 1..Len(t) |-> IF t[j] = Slash THEN Underscore ELSE t[j]]

\* Lines 186-200; output_name[-4] raises IndexError on a name under 4 characters.
NameOk(output_name) == Len(output_name) >= 4

OutputName(output_name, file_type) ==
    replace_slash(Stem(output_name) \o OutputExt(output_name, file_type))

\* str(n) for n >= 0.
RECURSIVE Digits(_)
Digits(n) == IF n < 10 THEN <<48 + n>> ELSE Digits(n \div 10) \o <<48 + (n % 10)>>

\* Lines 257-261: the first of name, name_1, name_2, ... that is not in the folder.
RECURSIVE Unique(_, _, _)
Unique(output_name_orig, n, dir) ==
    LET output_name == IF n = 0 THEN output_name_orig
                       ELSE output_name_orig \o <<Underscore>> \o Digits(n)
    IN  IF output_name \in dir THEN Unique(output_name_orig, n + 1, dir)
        ELSE output_name

----------------------------------------------------------------------------
(* The Xtra scanner (lines 208-231).                                        *)

\* zlib.decompress, on the streams this model's inputs hold: the complete zlib
\* streams of b"" and b"a".  Bytes after a complete stream are ignored; anything
\* that starts with no complete stream raises zlib.error.
Z_empty == <<120, 156, 3, 0, 0, 0, 0, 1>>
Z_a == <<120, 156, 75, 4, 0, 0, 98, 0, 98>>
IsPrefix(z, bytes) == Len(z) <= Len(bytes) /\ SubSeq(bytes, 1, Len(z)) = z
Inflates(bytes) == IsPrefix(Z_empty, bytes) \/ IsPrefix(Z_a, bytes)
decompress(bytes) == IF IsPrefix(Z_a, bytes) THEN <<97>> ELSE <<>>

\* Lines 209-213: the scanner's start, after the type tag was read at 8.
ScanStart(buf) ==
    LET pos == tell(buf, 8, 4)
    IN  [pos |-> IF read(buf, pos, 1) # <<0>> THEN pos ELSE tell(buf, pos, 1),
         tag |-> <<>>, size |-> 0]

\* Line 214.
Terminal(tag) == tag \in {T_XTdf, T_FILE}

\* (mutant) size is not reset after an Xinf payload was read.
PendingSizeKept(tag, size) == size

\* Lines 215-218: what line 219 still has to skip.
PendingSize(tag, size) == IF tag = T_Xinf THEN 0 ELSE size

\* Line 222.
EvenSize(size) == size + ((-size) % 2)

\* Lines 215-224: one turn of the loop.  ok is FALSE when read_tag or read_i32
\* raises (a byte that is not ASCII, fewer than four bytes left).
ScanTurn(buf, e, sc) ==
    LET p1 == IF sc.tag = T_Xinf THEN tell(buf, sc.pos, sc.size) ELSE sc.pos
        p2 == tell(buf, p1, PendingSize(sc.tag, sc.size))
        tag == read_tag(buf, p2, e)
        p3 == tell(buf, p2, 4)
        size == read_i32(buf, p3, e)
        p4 == tell(buf, p3, 4)
    IN  [ok |-> IsAscii(tag) /\ size >= 0,
         pos |-> IF tag = T_FILE THEN tell(buf, p4, FileSubHeader) ELSE p4,
         tag |-> tag,
         size |-> IF size >= 0 THEN EvenSize(size) ELSE 0]

----------------------------------------------------------------------------
(* main (lines 97-263).                                                     *)

\* re.search(sig .{4} marker, data, re.S).start(), or -1 without a match.
Search(buf, sig, marker) ==
    LET hits == {p \in 0..(Len(buf) - 12) :
                    read(buf, p, 4) = sig /\ read(buf, p + 8, 4) = marker}
    IN  IF hits = {} THEN -1 ELSE CHOOSE p \in hits : \A q \in hits : p <= q

NoHdr == [mmap_res_len |-> 0, mmap_res_count |-> 0, rel |-> 0]
NoCur == [name |-> <<>>, offset |-> 0, temp |-> <<>>, e |-> "",
          file_type |-> <<>>, output_name |-> <<>>]
NoScan == [pos |-> 0, tag |-> <<>>, size |-> 0]
NoTwice == [j |-> 0, ok |-> FALSE, buf |-> <<>>]

Crash ==
    /\ status' = "error"
    /\ pc' = "done"

\* Lines 109-122: find the archive in the input file.
Locate ==
    /\ pc = "locate"
    /\ LET win_file == Search(data, T_XFIR, T_LPPA)
           mac_file == Search(data, T_RIFX, T_APPL)
           offset == IF win_file >= 0 THEN win_file ELSE mac_file
       IN  IF offset < 0
           THEN Crash /\ UNCHANGED <<win, stream, endian>>
           ELSE /\ win' = (win_file >= 0)
                /\ stream' = read(data, offset, Len(data))
                /\ endian' = read_ident(stream', 0, "")
                /\ pc' = "header"
                /\ UNCHANGED status
    /\ UNCHANGED <<fx, data, outdir, hdr, i, entries, files, names, table, k,
                   cur, scan, log, twice>>

\* Lines 124-141: check the imap and mmap tags, read the map's header.
ReadHeader ==
    /\ pc = "header"
    /\ LET mmap_res_len == read_i16(stream, MMAP_POS + MmapLenOff, endian)
           mmap_res_count == read_i32(stream, MMAP_POS + MmapCountOff, endian)
           rel == read_i32(stream, MMAP_POS + MmapRessOff + 8, endian)
       IN  IF \/ read_tag(stream, IMAP_POS, endian) # T_imap
              \/ read_tag(stream, MMAP_POS, endian) # T_mmap
              \/ mmap_res_len < 0 \/ mmap_res_count < 0 \/ rel < 0
           THEN Crash /\ UNCHANGED hdr
           ELSE /\ hdr' = [mmap_res_len |-> mmap_res_len,
                           mmap_res_count |-> mmap_res_count, rel |-> rel]
                /\ pc' = "walk"
                /\ UNCHANGED status
    /\ UNCHANGED <<fx, data, outdir, win, stream, endian, i, entries, files,
                   names, table, k, cur, scan, log, twice>>

\* (mutant) the relocation base is subtracted from every stored offset.
EffectiveOffsetAlways(chunk_offset, rel) == chunk_offset - rel

\* Lines 149-150: a map record's offset in the archive.
EffectiveOffset(chunk_offset, rel) ==
    IF chunk_offset # 0 THEN chunk_offset - rel ELSE chunk_offset

\* (mutant) the file is put in front of the list.
AddFileFront(fs, f) == <<f>> \o fs

\* Line 153.
AddFile(fs, f) == Append(fs, f)

\* Lines 143-156: one turn of the map walk.
Walk ==
    /\ pc = "walk"
    /\ i < hdr.mmap_res_count
    /\ LET pos == (i * hdr.mmap_res_len) + MMAP_POS + MmapRessOff
           tag == read_tag(stream, pos, endian)
           stored_size == read_i32(stream, pos + 4, endian)
           stored == read_i32(stream, pos + 8, endian)
           size == stored_size + 8
           chunk_offset == EffectiveOffset(stored, hdr.rel)
           parsed == parse_dict(read(stream, chunk_offset, size), endian)
       IN  IF \/ ~IsAscii(tag) \/ stored_size < 0 \/ stored < 0
              \/ (tag = T_Dict /\ (chunk_offset < 0 \/ ~parsed.ok))
           THEN Crash /\ UNCHANGED <<i, entries, files, names>>
           ELSE /\ i' = i + 1
                /\ entries' = Append(entries, [tag |-> tag, size |-> size,
                                  stored |-> stored, chunk_offset |-> chunk_offset])
                /\ files' = IF tag = T_File
                            THEN AddFile(files, <<chunk_offset, size>>) ELSE files
                /\ names' = IF tag = T_Dict THEN parsed.names ELSE names
                /\ UNCHANGED <<pc, status>>
    /\ UNCHANGED <<fx, data, outdir, win, stream, endian, hdr, table, k, cur,
                   scan, log, twice>>

\* zip(names, files).
zip(ns, fs) == [j \in 1..Min(Len(ns), Len(fs)) |-> <<ns[j], fs[j]>>]

\* Lines 158-163: the walk is over; pair the names with the files.
Pair ==
    /\ pc = "walk"
    /\ i >= hdr.mmap_res_count
    /\ table' = zip(names, files)
    /\ pc' = "extract"
    /\ UNCHANGED <<fx, data, outdir, status, win, stream, endian, hdr, i,
                   entries, files, names, k, cur, scan, log, twice>>

\* Lines 165-200 for one pair of file_table: the name is stripped, the sub-file is
\* sliced by the size its own header gives, and its flag and type are read.  ok is
\* FALSE when a seek, read_i32, the tag's decoding or output_name[-4] raises.
Prefix(pair) ==
    LET name == pair[1]
        offset == pair[2][1]
        output_name == StripName(name, win)
        size == read_i32(stream, offset + 4, endian) + 8
        temp == read(stream, offset, size)
        e == read_ident(temp, 0, "")
        file_type == read_tag(temp, 8, e)
    IN  IF offset < 0 \/ size < 8 \/ ~IsAscii(file_type) \/ ~NameOk(output_name)
        THEN [ok |-> FALSE, cur |-> [NoCur EXCEPT !.name = name, !.offset = offset]]
        ELSE [ok |-> TRUE,
              cur |-> [name |-> name, offset |-> offset, temp |-> temp, e |-> e,
                       file_type |-> file_type,
                       output_name |-> OutputName(output_name, file_type)]]

Entry(c, kind, out, wrote, existed, temp_out) ==
    [name |-> c.name, offset |-> c.offset, kind |-> kind, e |-> c.e,
     file_type |-> c.file_type, temp_in |-> c.temp, named |-> c.output_name,
     out |-> out, wrote |-> wrote, existed |-> existed, temp_out |-> temp_out,
     scan |-> IF pc = "xtra" THEN scan ELSE NoScan]

\* (mutant) temp_file shares the archive's buffer: what the rebaser writes lands
\* in file_stream too.
SourceAliased(src, offset, temp_out) == write(src, offset, temp_out)

\* Line 177: temp_file holds its own copy of the bytes read; writing into it
\* leaves file_stream's buffer as it was.
SourceAfter(src, offset, temp_out) == src

\* An exception in lines 165-200 ends the run.
ExtractFail ==
    /\ pc = "extract"
    /\ k < Len(table)
    /\ ~Prefix(table[k + 1]).ok
    /\ log' = Append(log, Entry(Prefix(table[k + 1]).cur, "fail", <<>>, FALSE,
                                FALSE, <<>>))
    /\ Crash
    /\ UNCHANGED <<fx, data, outdir, win, stream, endian, hdr, i, entries,
                   files, names, table, k, cur, scan, twice>>

\* Lines 202-206: FGDM and FGDC sub-files are written as they are.
ExtractPass ==
    /\ pc = "extract"
    /\ k < Len(table)
    /\ Prefix(table[k + 1]).ok
    /\ LET c == Prefix(table[k + 1]).cur
       IN  /\ c.file_type \in {T_FGDM, T_FGDC}
           /\ outdir' = outdir \cup {c.output_name}
           /\ log' = Append(log, Entry(c, "pass", c.output_name, TRUE,
                                       c.output_name \in outdir, c.temp))
    /\ k' = k + 1
    /\ UNCHANGED <<fx, data, pc, status, win, stream, endian, hdr, i, entries,
                   files, names, table, cur, scan, twice>>

\* Lines 208-213: an Xtra sub-file; the scanner starts.
XtraBegin ==
    /\ pc = "extract"
    /\ k < Len(table)
    /\ Prefix(table[k + 1]).ok
    /\ LET c == Prefix(table[k + 1]).cur
       IN  /\ c.file_type = T_Xtra
           /\ cur' = c
           /\ scan' = ScanStart(c.temp)
    /\ pc' = "xtra"
    /\ UNCHANGED <<fx, data, outdir, status, win, stream, endian, hdr, i,
                   entries, files, names, table, k, log, twice>>

\* Lines 214-224: one turn of the scanner's loop.
XtraStep ==
    /\ pc = "xtra"
    /\ ~Terminal(scan.tag)
    /\ LET t == ScanTurn(cur.temp, cur.e, scan)
       IN  IF t.ok
           THEN /\ scan' = [pos |-> t.pos, tag |-> t.tag, size |-> t.size]
                /\ UNCHANGED <<pc, status, log>>
           ELSE /\ Crash
                /\ log' = Append(log, Entry(cur, "xtra-eof", <<>>, FALSE, FALSE, <<>>))
                /\ UNCHANGED scan
    /\ UNCHANGED <<fx, data, outdir, win, stream, endian, hdr, i, entries,
                   files, names, table, k, cur, twice>>

\* Lines 225-231: the scanner stopped at XTdf or FILE.
XtraEnd ==
    /\ pc = "xtra"
    /\ Terminal(scan.tag)
    /\ LET payload == read(cur.temp, scan.pos, scan.size)
       IN  IF scan.size = 0
           THEN /\ log' = Append(log, Entry(cur, "xtra-empty", <<>>, FALSE, FALSE, <<>>))
                /\ pc' = "extract"
                /\ k' = k + 1
                /\ UNCHANGED <<outdir, status>>
           ELSE IF Inflates(payload)
           THEN /\ outdir' = outdir \cup {cur.output_name}
                /\ log' = Append(log, Entry(cur, "xtra", cur.output_name, TRUE,
                                    cur.output_name \in outdir, decompress(payload)))
                /\ pc' = "extract"
                /\ k' = k + 1
                /\ UNCHANGED status
           ELSE /\ Crash
                /\ log' = Append(log, Entry(cur, "xtra-zlib", <<>>, FALSE, FALSE, <<>>))
                /\ UNCHANGED <<outdir, k>>
    /\ cur' = NoCur
    /\ scan' = NoScan
    /\ UNCHANGED <<fx, data, win, stream, endian, hdr, i, entries, files, names,
                   table, twice>>

\* Lines 233-263: any other sub-file is rebased and written under a new name.
ExtractMovie ==
    /\ pc = "extract"
    /\ k < Len(table)
    /\ Prefix(table[k + 1]).ok
    /\ LET c == Prefix(table[k + 1]).cur
           r == Rebase(c.temp, c.e)
           output_name == Unique(c.output_name, 0, outdir)
       IN  /\ c.file_type \notin {T_FGDM, T_FGDC, T_Xtra}
           /\ IF r.ok
              THEN /\ stream' = SourceAfter(stream, c.offset, r.buf)
                   /\ outdir' = outdir \cup {output_name}
                   /\ log' = Append(log, Entry(c, "movie", output_name, TRUE,
                                               output_name \in outdir, r.buf))
                   /\ k' = k + 1
                   /\ UNCHANGED <<pc, status>>
              ELSE /\ Crash
                   /\ log' = Append(log, Entry(c, "movie-fail", <<>>, FALSE, FALSE, <<>>))
                   /\ UNCHANGED <<stream, outdir, k>>
    /\ UNCHANGED <<fx, data, win, endian, hdr, i, entries, files, names, table,
                   cur, scan, twice>>

\* The loop of line 165 has no pair left: main returns.
Finish ==
    /\ pc = "extract"
    /\ k >= Len(table)
    /\ pc' = "done"
    /\ UNCHANGED <<fx, data, outdir, status, win, stream, endian, hdr, i,
                   entries, files, names, table, k, cur, scan, log, twice>>

Next ==
    \/ Locate
    \/ ReadHeader
    \/ Walk
    \/ Pair
    \/ ExtractFail
    \/ ExtractPass
    \/ XtraBegin
    \/ XtraStep
    \/ XtraEnd
    \/ ExtractMovie
    \/ Finish

\* Lines 233-254 once more, on the bytes main wrote for a rebased movie: what the
\* rebaser does with a sub-file that is already standalone.
RebaseAgain ==
    /\ pc = "done"
    /\ status = "ok"
    /\ twice = NoTwice
    /\ \E j \in 1..Len(log) :
          /\ log[j].kind = "movie"
          /\ LET r == Rebase(log[j].temp_out, read_ident(log[j].temp_out, 0, ""))
             IN  twice' = [j |-> j, ok |-> r.ok, buf |-> r.buf]
    /\ UNCHANGED <<fx, data, outdir, pc, status, win, stream, endian, hdr, i,
                   entries, files, names, table, k, cur, scan, log>>

NextTwice ==
    \/ Next
    \/ RebaseAgain

----------------------------------------------------------------------------
(* Input files.  An input is built, byte by byte, from a record of           *)
(* parameters; the parameter sets below are what the model checker draws    *)
(* from.                                                                    *)

Stored(tag, e) == IF e = "<" THEN Reverse(tag) ELSE tag
Ident(e) == IF e = "<" THEN T_XFIR ELSE T_RIFX
Pack16(v, e) == IF e = "<" THEN <<v % 256, v \div 256>> ELSE <<v \div 256, v % 256>>

\* The header every RIFX-family file starts with: ident, size, type, imap, and
\* an mmap whose header says stride and count; record 0 holds the relocation base.
Header(e, len, type, stride, count, base) ==
    LET b0 == Zeros(MMAP_POS + MmapRessOff + 12)
        b1 == write(b0, 0, Ident(e) \o Pack(len - 8, e) \o Stored(type, e))
        b2 == write(b1, IMAP_POS, Stored(T_imap, e))
        b3 == write(b2, INT_MMAP_POS, Pack(base + MMAP_POS, e))
        b4 == write(b3, MMAP_POS, Stored(T_mmap, e))
        b5 == write(b4, MMAP_POS + MmapLenOff, Pack16(stride, e))
        b6 == write(b5, MMAP_POS + MmapCountOff, Pack(count, e))
    IN  write(b6, MMAP_POS + MmapRessOff,
              Stored(T_RIFX, e) \o Pack(len - 8, e) \o Pack(base, e))

\* A map record of the given stride: tag, size, offset, then zeros.
Record(e, stride, tag, size, offset) ==
    Stored(tag, e) \o Pack(size, e) \o Pack(offset, e) \o Zeros(stride - 12)

RECURSIVE Concat(_)
Concat(ss) == IF ss = <<>> THEN <<>> ELSE Head(ss) \o Concat(Tail(ss))

\* A movie sub-file: m.offs are the stored offsets of its records 1..count-1,
\* m.base its relocation base, m.tail its last four bytes, m.mark a content byte.
MovieLen(m) == MMAP_POS + MmapRessOff + (Max(m.count, 1) * m.stride) + 8

BuildMovie(m) ==
    LET len == MovieLen(m)
        recs == Concat([j \in 1..(m.count - 1) |->
                           Record(m.e, m.stride, T_junk, 64, m.offs[j])])
        head == Header(m.e, len, m.type, m.stride, m.count, m.base)
        body == SubSeq(head, 1, MMAP_POS + MmapRessOff) \o
                Record(m.e, m.stride, T_RIFX, len - 8, m.base) \o recs
    IN  body \o Zeros(len - Len(body) - 5) \o <<m.mark>> \o m.tail

\* An FGDM or FGDC sub-file: ident, size, type, four bytes of content.
BuildPass(e, type, mark) ==
    Ident(e) \o Pack(8, e) \o Stored(type, e) \o <<mark, mark, mark, mark>>

\* An Xtra sub-file: ident, size, type, then x.lead bytes of padding and the
\* chunks of x.chunks (tag, declared size, the bytes that follow the size).
XtraChunk(e, c) == Stored(c.tag, e) \o Pack(c.size, e) \o c.bytes

BuildXtra(x) ==
    LET chunks == Concat([j \in 1..Len(x.chunks) |-> XtraChunk(x.e, x.chunks[j])])
        rest == Zeros(x.lead) \o chunks
    IN  Ident(x.e) \o Pack(4 + Len(rest), x.e) \o Stored(T_Xtra, x.e) \o rest

\* A Dict resource holding the names ns; its stream is written in byte order e.
DictName(n, e) == Pack(Len(n), e) \o n \o Zeros((-Len(n)) % 4)

BuildDict(ns, outer, e, toc, pad) ==
    LET stream0 == Pack(toc, e) \o Zeros(12) \o Pack(Len(ns), e) \o Zeros(4) \o
                   Zeros(toc) \o Pack16(DictUnk + pad, e) \o Zeros(pad) \o
                   Concat([j \in 1..Len(ns) |-> DictName(ns[j], e)])
    IN  Stored(T_Dict, outer) \o Pack(Len(stream0), outer) \o stream0

\* The archive: header, map, then the bodies of the map's own resources.  An
\* entry of a.map is [tag, body, at]: at = "own" puts body after the map, "none"
\* stores offset 0 (no resource), "first" stores the offset of the first File body.
RECURSIVE BodiesLen(_, _)
BodiesLen(map, n) ==
    IF n = 0 THEN 0
    ELSE BodiesLen(map, n - 1) + (IF map[n].at = "own" THEN Len(map[n].body) ELSE 0)

MapEnd(a) == MMAP_POS + MmapRessOff + ((Len(a.map) + 1) * a.stride)

BodyPos(a, n) == MapEnd(a) + BodiesLen(a.map, n - 1)

FirstFile(a) ==
    LET fs == {n \in 1..Len(a.map) : a.map[n].tag = T_File /\ a.map[n].at = "own"}
    IN  IF fs = {} THEN 0 ELSE CHOOSE n \in fs : \A m \in fs : n <= m

StoredOffset(a, n) ==
    IF a.map[n].at = "own" THEN BodyPos(a, n) + a.rel
    ELSE IF a.map[n].at = "first" /\ FirstFile(a) # 0
         THEN BodyPos(a, FirstFile(a)) + a.rel
    ELSE 0

BuildArchive(a) ==
    LET len == MapEnd(a) + BodiesLen(a.map, Len(a.map))
        head == Header(a.e, len, T_APPL, a.stride, Len(a.map) + 1, a.rel)
        recs == Concat([n \in 1..Len(a.map) |->
                    Record(a.e, a.stride, a.map[n].tag,
                           Max(Len(a.map[n].body), 8) - 8, StoredOffset(a, n))])
        bodies == Concat([n \in 1..Len(a.map) |->
                    IF a.map[n].at = "own" THEN a.map[n].body ELSE <<>>])
    IN  SubSeq(head, 1, MMAP_POS + MmapRessOff) \o
        Record(a.e, a.stride, T_RIFX, len - 8, a.rel) \o recs \o bodies

BuildHost(a) == a.stub \o BuildArchive(a)

----------------------------------------------------------------------------
(* The inputs drawn.                                                        *)
MaxEntries == 3
MaxNames == 3
MaxRecords == 2
MaxChunks == 2

Orders == {"<", ">"}
Stub == <<77, 90>>
N_DIR == <<46, 100, 105, 114>>

\* "a.dir", "b.dir", ...
Nm(j) == <<96 + j>> \o N_DIR
Nms(n) == [j \in 1..n |-> Nm(j)]

\* meta is what body was built from: a Dict's names, an Xtra's parameters.
Ent(tag, body, at, meta) == [tag |-> tag, body |-> body, at |-> at, meta |-> meta]

Arch(fam, stub, e, rel, stride, map, existing) ==
    [fam |-> fam, stub |-> stub, e |-> e, rel |-> rel, stride |-> stride,
     map |-> map, existing |-> existing]

\* A well-formed movie with three map records, one of them empty.
StdMovie(e, mark) ==
    BuildMovie([e |-> e, type |-> T_MV93, stride |-> 20, count |-> 3, base |-> 32,
                offs |-> <<0, 132>>, tail |-> <<0, 0, 0, 0>>, mark |-> mark])

StdXtra(e) ==
    BuildXtra([e |-> e, lead |-> 1,
               chunks |-> <<[tag |-> T_Xinf, size |-> 2, bytes |-> <<7, 7>>],
                            [tag |-> T_XTdf, size |-> 8, bytes |-> Z_empty]>>])

StdDict(ns, e) == BuildDict(ns, e, e, 4, 0)

\* Inputs that take every path of main: a pass-through, an Xtra and a movie
\* sub-file; and one whose second name is too short to have an extension.
Baseline ==
    {Arch("base", Stub, e, 32, 20,
          <<Ent(T_Dict, StdDict(ns, e), "own", ns),
            Ent(T_File, BuildPass(e, T_FGDM, 1), "own", <<>>),
            Ent(T_File, StdXtra(e), "own", <<>>),
            Ent(T_File, StdMovie(e, 3), "own", <<>>)>>, {}) :
        e \in Orders, ns \in {Nms(3), <<Nm(1), <<97, 98, 99>>, Nm(3)>>}}

\* Pairing: maps of File, Dict and free records in every order, with at most
\* one Dict of 0..MaxNames names; the n-th File record's movie is marked n.
Shapes ==
    {sh \in UNION {[1..m -> {"F", "D", "J"}] : m \in 1..MaxEntries} :
        Cardinality({n \in DOMAIN sh : sh[n] = "D"}) <= 1}

FilesBefore(sh, n) == Cardinality({m \in 1..n : sh[m] = "F"})

ShapeMap(sh, e, nnames, flip) ==
    [n \in DOMAIN sh |->
        IF sh[n] = "F" THEN Ent(T_File, StdMovie(e, FilesBefore(sh, n)), "own", <<>>)
        ELSE IF sh[n] = "D"
             THEN Ent(T_Dict, BuildDict(Nms(nnames), e,
                                        IF flip THEN CHOOSE o \in Orders : o # e ELSE e,
                                        4, 2), "own", Nms(nnames))
        ELSE Ent(T_free, <<>>, "none", <<>>)]

PairInputs ==
    {Arch("pair", stub, e, rel, 20, ShapeMap(sh, e, nnames, flip), {}) :
        stub \in {<<>>}, e \in Orders, rel \in {0, 32}, sh \in Shapes,
        nnames \in 0..MaxNames, flip \in {FALSE}}
    \cup
    {Arch("pair", Stub, e, 32, 24, ShapeMap(sh, e, nnames, TRUE), {}) :
        e \in Orders, sh \in {<<"J", "F", "D", "F">>, <<"D", "F">>},
        nnames \in {2}}

\* Rebasing: one handcrafted movie, extracted twice (two File records store the
\* same offset), with every stride, count, relocation base and stored offsets.
OffsetChoices(base, len) ==
    {0, base, base + 100, base + len - 1} \cup (IF base > 0 THEN {base - 8} ELSE {})

Movies ==
    {[e |-> e, type |-> T_MV93, stride |-> stride, count |-> count, base |-> base,
      offs |-> offs, tail |-> tail, mark |-> 9] :
        e \in Orders, stride \in {20, 24}, count \in {0}, base \in {0, 16, 512},
        offs \in {<<>>}, tail \in {Zeros(4), <<1, 2, 3, 4>>}}
    \cup
    UNION {UNION {UNION {
        {[e |-> e, type |-> T_MV93, stride |-> stride, count |-> count,
          base |-> base, offs |-> offs, tail |-> tail, mark |-> 9] :
            e \in Orders, tail \in {Zeros(4), <<1, 2, 3, 4>>},
            offs \in [1..(count - 1) ->
                        OffsetChoices(base, MMAP_POS + MmapRessOff + (count * stride) + 8)]} :
        base \in {0, 16, 512}} : count \in 1..(MaxRecords + 1)} : stride \in {20, 24}}

RebaseInputs ==
    {Arch("rebase", <<>>, "<", 32, 20,
          <<Ent(T_Dict, StdDict(Nms(2), "<"), "own", Nms(2)),
            Ent(T_File, BuildMovie(m), "own", <<>>),
            Ent(T_File, BuildMovie(m), "first", <<>>),
            Ent(T_free, <<>>, "none", <<>>)>>, {}) : m \in Movies}

\* Naming: one sub-file of each type under each name.
Prefixes == {<<>>, <<99, 92>>, <<104, 58>>}
Bases == {<<>>, <<109>>, <<77, 47>>}
Exts == {<<46, 100, 105, 114>>, <<46, 68, 73, 82>>, <<46, 68, 105, 114>>,
         <<46, 99, 115, 116>>, <<46, 67, 83, 84>>, <<46, 116, 120, 116>>,
         <<46, 84, 88, 84>>, <<97, 98, 99, 100>>, <<100, 105, 114>>,
         <<46, 100>>, <<>>}
NameSet == {p \o b \o x : p \in Prefixes, b \in Bases, x \in Exts}

SubTypes == {"MV93", "FGDM", "FGDC", "Xtra", "free"}

SubFile(t, e, mark) ==
    IF t = "FGDM" THEN BuildPass(e, T_FGDM, mark)
    ELSE IF t = "FGDC" THEN BuildPass(e, T_FGDC, mark)
    ELSE IF t = "Xtra" THEN StdXtra(e)
    ELSE IF t = "free"
         THEN BuildMovie([e |-> e, type |-> T_free, stride |-> 20, count |-> 2,
                          base |-> 32, offs |-> <<40>>, tail |-> Zeros(4),
                          mark |-> mark])
    ELSE StdMovie(e, mark)

NameInputs ==
    {Arch("name", <<>>, e, 0, 20,
          <<Ent(T_Dict, StdDict(<<n>>, e), "own", <<n>>),
            Ent(T_File, SubFile(t, e, 1), "own", <<>>)>>, {}) :
        e \in Orders, n \in NameSet, t \in SubTypes}

\* Collisions: two or three sub-files whose names coincide, in a folder that
\* may already hold a file.
N_a_dir == <<97, 46, 100, 105, 114>>
N_a_dxr == <<97, 46, 100, 120, 114>>
N_a_dcr == <<97, 46, 100, 99, 114>>

CollisionInputs ==
    {Arch("collide", <<>>, "<", 0, 20,
          <<Ent(T_Dict, StdDict(<<N_a_dir, N_a_dir, n3>>, "<"), "own", <<N_a_dir, N_a_dir, n3>>),
            Ent(T_File, SubFile(t1, "<", 1), "own", <<>>),
            Ent(T_File, SubFile(t2, "<", 2), "own", <<>>),
            Ent(T_File, SubFile(t3, "<", 3), "own", <<>>)>>, existing) :
        t1 \in SubTypes, t2 \in SubTypes, t3 \in {"MV93", "FGDM"},
        n3 \in {N_a_dir, <<98>> \o N_DIR},
        existing \in {{}, {N_a_dxr}, {N_a_dxr, N_a_dcr}}}

\* The Xtra scanner: up to MaxChunks chunks, then a terminal chunk or the end.
Garbage == <<1, 2, 3, 4, 5, 6, 7, 8>>

Chunk(tag, size, bytes) == [tag |-> tag, size |-> size, bytes |-> bytes]

PlainChunks ==
    {Chunk(T_junk, 0, <<>>), Chunk(T_junk, 3, <<5, 5, 5, 0>>),
     Chunk(T_Xinf, 2, <<7, 7>>), Chunk(T_junk, 4, <<5, 5>>),
     Chunk(<<88, 200, 100, 102>>, 0, <<>>)}

LastChunks ==
    {Chunk(T_XTdf, 8, Z_empty), Chunk(T_XTdf, 7, Z_empty),
     Chunk(T_XTdf, 9, Z_a \o <<0>>), Chunk(T_XTdf, 0, <<>>),
     Chunk(T_XTdf, 8, Garbage), Chunk(T_XTdf, 8, SubSeq(Z_empty, 1, 4)),
     Chunk(T_FILE, 8, Zeros(FileSubHeader) \o Z_empty),
     Chunk(T_FILE, 0, Zeros(FileSubHeader))}

ChunkLists ==
    UNION {[1..n -> PlainChunks] : n \in 0..MaxChunks}

Streams ==
    {cs : cs \in ChunkLists} \cup {Append(cs, c) : cs \in ChunkLists, c \in LastChunks}

XtraInputs ==
    {Arch("xtra", <<>>, e, 0, 20,
          <<Ent(T_Dict, StdDict(<<N_a_dir>>, e), "own", <<N_a_dir>>),
            Ent(T_File, BuildXtra([e |-> v[1], lead |-> v[2], chunks |-> cs]), "own",
                [e |-> v[1], lead |-> v[2], chunks |-> cs])>>,
          {}) :
        e \in {"<"}, cs \in Streams,
        v \in {<<"<", 0>>, <<"<", 1>>, <<"<", 2>>, <<">", 1>>}}

InitWith(inputs) ==
    /\ fx \in inputs
    /\ data = BuildHost(fx)
    /\ outdir = fx.existing
    /\ pc = "locate"
    /\ status = "ok"
    /\ win = FALSE
    /\ stream = <<>>
    /\ endian = ""
    /\ hdr = NoHdr
    /\ i = 0
    /\ entries = <<>>
    /\ files = <<>>
    /\ names = <<>>
    /\ table = <<>>
    /\ k = 0
    /\ cur = NoCur
    /\ scan = NoScan
    /\ log = <<>>
    /\ twice = NoTwice

Init == InitWith(PairInputs \cup RebaseInputs \cup Baseline)

Spec == Init /\ [][Next]_vars

InitName == InitWith(NameInputs \cup CollisionInputs \cup Baseline)
InitXtra == InitWith(XtraInputs \cup Baseline)

SpecName == InitName /\ [][Next]_vars

SpecXtra == InitXtra /\ [][Next]_vars

SpecTwice == Init /\ [][NextTwice]_vars

----------------------------------------------------------------------------
(* What the input was built from, for the properties below.                 *)

Indices(a, tag) ==
    SelectSeq([n \in 1..Len(a.map) |-> n], LAMBDA n : a.map[n].tag = tag)

\* The File records of the map, in map order, and the names its Dict holds.
FileRecs(a) == Indices(a, T_File)
DictRecs(a) == Indices(a, T_Dict)
DictNames(a) == IF DictRecs(a) = <<>> THEN <<>> ELSE a.map[DictRecs(a)[1]].meta

\* The offset map record n-1 stores (record 0 stores the relocation base).
TrueStored(a, n) == IF n = 1 THEN a.rel ELSE StoredOffset(a, n - 1)

\* A movie's own map, read from its bytes the way lines 130-147 read the archive's.
SubStride(buf, e) == read_i16(buf, MMAP_POS + MmapLenOff, e)
SubCount(buf, e) == read_i32(buf, MMAP_POS + MmapCountOff, e)
SubBase(buf, e) == read_i32(buf, MMAP_POS + MmapRessOff + 8, e)
SubOffsetPos(buf, e, n) == MMAP_POS + MmapRessOff + (n * SubStride(buf, e)) + 8
SubOffset(buf, e, n) == read_i32(buf, SubOffsetPos(buf, e, n), e)

\* The offset fields the rebaser visits (lines 242-245).
Visited(buf, e) ==
    {SubRecPos + (n * SubStride(buf, e)) : n \in 0..(SubCount(buf, e) - 2)}

Movies_(l) == {j \in 1..Len(l) : l[j].kind = "movie"}

----------------------------------------------------------------------------
(* C1: when the map holds N File records and its one Dict decodes to N      *)
(* names, the j-th pair main handles is the j-th name with the sub-file of  *)
(* the j-th File record in map order, wherever the Dict record sits; a run  *)
(* that ends without an error has handled all N.                            *)
C1_PairedInMapOrder ==
    (Len(DictRecs(fx)) = 1 /\ Len(DictNames(fx)) = Len(FileRecs(fx))) =>
        /\ Len(log) <= Len(FileRecs(fx))
        /\ \A j \in 1..Len(log) :
              /\ log[j].name = DictNames(fx)[j]
              /\ log[j].offset = TrueStored(fx, FileRecs(fx)[j] + 1) - fx.rel
              /\ log[j].kind # "fail" => log[j].temp_in = fx.map[FileRecs(fx)[j]].body
        /\ (pc = "done" /\ status = "ok") => Len(log) = Len(FileRecs(fx))

\* Two sub-files were extracted from a map whose Dict sits between the File records.
C1_Witness ==
    /\ pc = "done"
    /\ status = "ok"
    /\ fx.fam = "pair"
    /\ Len(log) = 2
    /\ Len(DictNames(fx)) = 2
    /\ FileRecs(fx)[1] < DictRecs(fx)[1]
    /\ DictRecs(fx)[1] < FileRecs(fx)[2]
    /\ log[1].out # log[2].out

(* C2: when the number of names differs from the number of File records,    *)
(* the run ends with an error.                                              *)
C2_MismatchIsReported ==
    (pc = "done" /\ Len(DictNames(fx)) # Len(FileRecs(fx))) => status = "error"

(* C5: a stored offset of zero is never relocated.  In the map walk a       *)
(* record that stores 0 gets offset 0 and any other gets its stored offset  *)
(* less the relocation base; in a rebased movie a visited field that held 0 *)
(* keeps its bytes and any other holds its old value less the movie's base. *)
C5_ZeroNeverRelocated ==
    /\ \A n \in 1..Len(entries) :
          entries[n].chunk_offset =
              IF TrueStored(fx, n) = 0 THEN 0 ELSE TrueStored(fx, n) - fx.rel
    /\ \A j \in Movies_(log) :
          LET in == log[j].temp_in
              out == log[j].temp_out
              e == log[j].e
          IN  \A pos \in Visited(in, e) :
                 IF read_i32(in, pos, e) = 0
                 THEN read(out, pos, 4) = read(in, pos, 4)
                 ELSE read_i32(out, pos, e) = read_i32(in, pos, e) - SubBase(in, e)

\* The walk met a record storing 0 under a nonzero base, and a movie was rebased
\* that has one field holding 0 and one holding another offset, its base not 0.
C5_Witness ==
    /\ fx.rel # 0
    /\ \E n \in 1..Len(entries) : entries[n].stored = 0
    /\ \E j \in Movies_(log) :
          /\ SubBase(log[j].temp_in, log[j].e) # 0
          /\ \E p, q \in Visited(log[j].temp_in, log[j].e) :
                /\ read_i32(log[j].temp_in, p, log[j].e) = 0
                /\ read_i32(log[j].temp_in, q, log[j].e) # 0
                /\ log[j].temp_out # log[j].temp_in

(* C3: a movie's map is standalone after rebasing.  When every record of    *)
(* the movie's map stores 0 or an offset in [R, R+L), R the movie's         *)
(* relocation base and L its length, every record of the rebased movie's    *)
(* map stores an offset in [0, L).                                          *)
C3_Precondition(in, e) ==
    \A r \in 0..(SubCount(in, e) - 1) :
        \/ SubOffset(in, e, r) = 0
        \/ /\ SubBase(in, e) <= SubOffset(in, e, r)
           /\ SubOffset(in, e, r) < SubBase(in, e) + Len(in)

C3_RebasedMapIsStandalone ==
    \A j \in Movies_(log) :
        LET in == log[j].temp_in
            out == log[j].temp_out
            e == log[j].e
        IN  C3_Precondition(in, e) =>
                \A r \in 0..(SubCount(in, e) - 1) :
                    SubOffset(out, e, r) \in 0..(Len(in) - 1)

(* C4: rebasing a movie that is already rebased is reported as invalid.     *)
(* Stated where it matters: the movie's base is not 0 and a field the       *)
(* rebaser visits holds an offset.                                          *)
C4_SecondRebaseIsRejected ==
    twice.j # 0 =>
        LET first == log[twice.j].temp_out
            e == log[twice.j].e
        IN  (/\ SubBase(first, e) # 0
             /\ \E pos \in Visited(first, e) : read_i32(first, pos, e) # 0)
            => ~twice.ok

(* C8: rebasing changes no byte of the archive buffer, so every sub-file,   *)
(* whatever was extracted before it and from where, is the slice of the     *)
(* archive as it was read; the rebased copy has the length of the slice,    *)
(* 0x2C at 0x18 and four zero bytes at its end, and differs from the slice  *)
(* only there and in the visited offset fields that held a nonzero value.   *)
C8_Allowed(in, e) ==
    (INT_MMAP_POS..(INT_MMAP_POS + 3))
    \cup UNION {pos..(pos + 3) : pos \in {q \in Visited(in, e) : read_i32(in, q, e) # 0}}
    \cup ((Len(in) - 4)..(Len(in) - 1))

C8_RebaseFrame ==
    /\ pc # "locate" => stream = BuildArchive(fx)
    /\ \A j \in 1..Len(log) :
          log[j].kind # "fail" =>
              log[j].temp_in =
                  read(BuildArchive(fx), log[j].offset,
                       read_i32(BuildArchive(fx), log[j].offset + 4, fx.e) + 8)
    /\ \A j \in Movies_(log) :
          LET in == log[j].temp_in
              out == log[j].temp_out
              e == log[j].e
          IN  /\ Len(out) = Len(in)
              /\ read_i32(out, INT_MMAP_POS, e) = MMAP_POS
              /\ read(out, Len(out) - 4, 4) = Zeros(4)
              /\ \A p \in 0..(Len(in) - 1) :
                    out[p + 1] # in[p + 1] => p \in C8_Allowed(in, e)

\* The same range of the archive was extracted and rebased twice; the rebaser
\* rewrote the pointer, an offset field and the last four bytes of each copy.
C8_Witness ==
    /\ Len(log) = 2
    /\ Movies_(log) = {1, 2}
    /\ log[1].offset = log[2].offset
    /\ LET in == log[2].temp_in
           out == log[2].temp_out
           e == log[2].e
       IN  /\ read_i32(in, INT_MMAP_POS, e) # MMAP_POS
           /\ read(in, Len(in) - 4, 4) # Zeros(4)
           /\ \E pos \in Visited(in, e) : read_i32(out, pos, e) # read_i32(in, pos, e)

(* C6: no write of a run goes to a path that existed before it.             *)
C6_NoOverwrite ==
    \A j \in 1..Len(log) : log[j].wrote => ~log[j].existed

(* C7: a stripped name that ends in .dir or .cst, in any case, gets .dxr or *)
(* .cxt for a sub-file of type MV93 and .dcr or .cct for one of type FGDM,  *)
(* in upper case exactly when the name's extension is all upper case; the   *)
(* characters before the extension are kept, '/' becoming '_'.              *)
C7_Stripped(j) == StripName(log[j].name, fx.e = "<")

C7_Mapped(ext, file_type) ==
    IF lower(ext) = E_dir
    THEN (IF file_type = T_MV93 THEN E_dxr ELSE E_dcr)
    ELSE (IF file_type = T_MV93 THEN E_cxt ELSE E_cct)

C7_Expected(ext, file_type) ==
    IF \A n \in 2..4 : ext[n] >= 65 /\ ext[n] <= 90
    THEN upper(C7_Mapped(ext, file_type))
    ELSE C7_Mapped(ext, file_type)

C7_ExtensionMapping ==
    \A j \in 1..Len(log) :
        LET st == C7_Stripped(j)
        IN  (/\ Len(st) >= 4
             /\ lower(Last4(st)) \in {E_dir, E_cst}
             /\ log[j].file_type \in {T_MV93, T_FGDM})
            => /\ log[j].kind # "fail"
               /\ log[j].named = replace_slash(ButLast4(st)) \o
                                  C7_Expected(Last4(st), log[j].file_type)

\* "M/.DIR", stripped of its path, named an MV93 sub-file "M_.DXR".
C7_Witness ==
    \E j \in 1..Len(log) :
        /\ log[j].file_type = T_MV93
        /\ C7_Stripped(j) = <<77, 47, 46, 68, 73, 82>>
        /\ C7_Stripped(j) # log[j].name
        /\ log[j].named = <<77, 95, 46, 68, 88, 82>>
        /\ log[j].wrote

(* C10: a stripped name without '.' as its fourth-from-last character       *)
(* (names under 4 characters included) is named without an error, and the   *)
(* output name starts with the whole base name, '/' replaced by '_'.        *)
C10_WholeBaseNameKept ==
    \A j \in 1..Len(log) :
        LET st == C7_Stripped(j)
        IN  (Len(st) < 4 \/ st[Len(st) - 3] # Dot)
            => /\ log[j].kind # "fail"
               /\ Len(log[j].named) >= Len(st)
               /\ SubSeq(log[j].named, 1, Len(st)) = replace_slash(st)

(* C9: the Xtra scanner.  On a stream of well-formed chunks (after at most  *)
(* one padding byte, each chunk before the first XTdf or FILE has an ASCII  *)
(* tag and is followed by its declared size rounded up to even) the scanner *)
(* stops at the first XTdf or FILE chunk with that chunk's size rounded up  *)
(* to even, and fails when there is none.  It writes exactly when it        *)
(* stopped at such a chunk of nonzero size and the bytes it read for it     *)
(* are a zlib stream; a zero size gives no output and no error.  The scan   *)
(* always ends: each turn that does not end it advances the position.       *)
C9_Xtras(l) == {j \in 1..Len(l) : l[j].file_type = T_Xtra /\ l[j].kind # "fail"}

C9_Param(j) == fx.map[FileRecs(fx)[j]].meta

C9_FirstTerminal(chunks) ==
    LET ts == {n \in 1..Len(chunks) : Terminal(chunks[n].tag)}
    IN  IF ts = {} THEN 0 ELSE CHOOSE n \in ts : \A m \in ts : n <= m

C9_WellFormed(x) ==
    /\ x.lead <= 1
    /\ \A n \in 1..Len(x.chunks) :
          (C9_FirstTerminal(x.chunks) = 0 \/ n < C9_FirstTerminal(x.chunks)) =>
              /\ IsAscii(x.chunks[n].tag)
              /\ Len(x.chunks[n].bytes) =
                     x.chunks[n].size + (IF x.chunks[n].size % 2 = 1 THEN 1 ELSE 0)

C9_StopsAtFirstTerminal ==
    \A j \in C9_Xtras(log) :
        (fx.fam = "xtra" /\ C9_WellFormed(C9_Param(j))) =>
            LET cs == C9_Param(j).chunks
                t == C9_FirstTerminal(cs)
            IN  IF t = 0 THEN log[j].kind = "xtra-eof" /\ status = "error"
                ELSE /\ log[j].scan.tag = cs[t].tag
                     /\ log[j].scan.size = cs[t].size + (IF cs[t].size % 2 = 1 THEN 1 ELSE 0)

C9_Stopped(j) == Terminal(log[j].scan.tag) /\ log[j].kind # "xtra-eof"

C9_WritesIffInflates ==
    \A j \in C9_Xtras(log) :
        /\ log[j].wrote <=>
              /\ C9_Stopped(j)
              /\ log[j].scan.size # 0
              /\ Inflates(read(log[j].temp_in, log[j].scan.pos, log[j].scan.size))
        /\ (C9_Stopped(j) /\ log[j].scan.size = 0 /\ j = Len(log)) => status = "ok"

\* Every turn of the scan that does not end it moves temp_file's position at least
\* the 8 bytes of a tag and a size forward, and the position never passes the end
\* of the buffer: after at most Len/8 turns the scan has ended.  While it has not,
\* main has a step to take.
C9_Turn ==
    (pc = "xtra" /\ pc' = "xtra") =>
        /\ scan'.pos >= scan.pos + 8
        /\ scan'.pos <= Len(cur.temp)

C9_ScannerEnds ==
    /\ [](C9_StopsAtFirstTerminal /\ C9_WritesIffInflates)
    /\ [](pc = "xtra" => ENABLED Next)
    /\ [][C9_Turn]_vars

\* Two chunks, one of them Xinf, were skipped, and the XTdf chunk after them was
\* inflated and written.
C9_Witness ==
    \E j \in C9_Xtras(log) :
        /\ fx.fam = "xtra"
        /\ C9_WellFormed(C9_Param(j))
        /\ C9_FirstTerminal(C9_Param(j).chunks) = 3
        /\ \E n \in 1..2 : /\ C9_Param(j).chunks[n].tag = T_Xinf
                           /\ C9_Param(j).chunks[n].size # 0
        /\ log[j].scan.tag = T_XTdf
        /\ log[j].wrote

\* The claim as it was made: the scanner writes exactly when it stopped at an
\* XTdf or FILE chunk of nonzero size.
C9_WritesIffNonzeroSize ==
    /\ C9_StopsAtFirstTerminal
    /\ \A j \in C9_Xtras(log) :
          log[j].wrote <=> (C9_Stopped(j) /\ log[j].scan.size # 0)

====
